---- MODULE Spec2Model ----
(***************************************************************************)
(* Battleship (src/main.py): the constrained random field generator, the   *)
(* shot registry, the game-over test and the AI's hunt/target engine.      *)
(*                                                                         *)
(* A grid is a function from the cell indices 0..size*size-1 to cell       *)
(* states; a ship is the sequence of its cell indices in the order the     *)
(* generator appended them; a fleet is the sequence of ships in placement  *)
(* order; the recommendation pool is a sequence of <<row, col>> pairs.     *)
(***************************************************************************)
EXTENDS Integers, Sequences, FiniteSets

VARIABLES
    pc,                 \* position in the program
    side,               \* which generate_field call of _main_loop: "player" or "ai"
    field_size,         \* generate_field's field_size
    max_deck_length,    \* generate_field's max_deck_length
    field,              \* the grid
    ships,              \* the fleet
    deck_length,        \* generate_field: the outer loop's variable
    placed,             \* generate_field: the inner loop's index
    cell_idx,           \* _main_loop: the cell of the last shot (-1: none yet)
    player_shot,        \* _main_loop: the result of the player's last shot
    ai_shot,            \* _main_loop: the result of the AI's last shot
    recomendation_pool, \* _main_loop: the AI's recommendation pool
    game_over           \* _main_loop: game_over

vars == <<pc, side, field_size, max_deck_length, field, ships, deck_length,
          placed, cell_idx, player_shot, ai_shot, recomendation_pool, game_over>>

(***************************************************************************)
(* Bounds of the model.                                                    *)
(***************************************************************************)
\* the grid size of the game (_FIELD_SIZE, scaled down)
FIELD_SIZE == 3
\* the largest deck of the game (generate_field's default, scaled down)
MAX_DECK_LENGTH == 2
\* generate_field on its own: field_size in 1..GenMaxFieldSize
GenMaxFieldSize == 4
\* generate_field on its own: max_deck_length in 1..GenMaxDeckLength
GenMaxDeckLength == 2
\* make_recommendations on its own: pools of at most MaxPoolLen entries
MaxPoolLen == 2

(***************************************************************************)
(* FieldCell and Shot                                                      *)
(***************************************************************************)
FieldCell == {"WATER", "SHIP", "DEBRIS", "SUNKEN", "MISS"}

Shot == {"MISS", "HIT", "SUNK"}

Max(a, b) == IF a > b THEN a ELSE b

Min(a, b) == IF a < b THEN a ELSE b

\* the elements of seq as a set
Range(seq) == {seq[k] : k \in 1..Len(seq)}

\* the ascending sequence of a set of cell indices
RECURSIVE SortedSeq(_)
SortedSeq(S) ==
    IF S = {} THEN <<>>
    ELSE LET m == CHOOSE x \in S : \A y \in S : x <= y
         IN  <<m>> \o SortedSeq(S \ {m})

\* _is_valid_x_ship_start testing the cells of the ship only, not the cells around it
is_valid_x_ship_start_no_buffer(f, cell, deck, size) ==
    LET cell_y == cell \div size
        cell_x == cell % size
        ship_coords == {cell_y * size + j : j \in cell_x..(cell_x + deck - 1)}
    IN  IF size - cell_x < deck THEN <<>>
        ELSE IF \E c \in ship_coords : f[c] # "WATER" THEN <<>>
        ELSE SortedSeq(ship_coords)

\* _is_valid_x_ship_start taking the deck_length cells from cell on, without the
\* test that they fit in the row
is_valid_x_ship_start_no_fit(f, cell, deck, size) ==
    LET cell_y == cell \div size
        cell_x == cell % size
        start_x == Max(cell_x - 1, 0)
        end_x == Min(cell_x + deck + 1, size)
        start_y == Max(cell_y - 1, 0)
        end_y == Min(cell_y + 2, size)
        rect == {i * size + j : i \in start_y..(end_y - 1), j \in start_x..(end_x - 1)}
        ship_coords == {c \in cell..(cell + deck - 1) : c < size * size}
    IN  IF \E c \in rect \cup ship_coords : f[c] # "WATER" THEN <<>>
        ELSE SortedSeq(ship_coords)

(***************************************************************************)
(* _is_valid_x_ship_start: the cells of a horizontal ship of deck_length   *)
(* cells starting at cell, or <<>> when it does not fit or a cell of the   *)
(* surrounding rectangle is not WATER.                                     *)
(***************************************************************************)
is_valid_x_ship_start(f, cell, deck, size) ==
    LET cell_y == cell \div size
        cell_x == cell % size
        deck_offset == cell_x + deck
        start_x == Max(cell_x - 1, 0)
        end_x == Min(deck_offset + 1, size)
        start_y == Max(cell_y - 1, 0)
        end_y == Min(cell_y + 2, size)
        rect == {i * size + j : i \in start_y..(end_y - 1), j \in start_x..(end_x - 1)}
        ship_coords == {i * size + j : i \in {cell_y}, j \in cell_x..(deck_offset - 1)}
    IN  IF size - cell_x < deck THEN <<>>
        ELSE IF \E c \in rect : f[c] # "WATER" THEN <<>>
        ELSE SortedSeq(ship_coords \cap rect)

\* _is_valid_y_ship_start testing the cells of the ship only, not the cells around it
is_valid_y_ship_start_no_buffer(f, cell, deck, size) ==
    LET cell_y == cell \div size
        cell_x == cell % size
        ship_coords == {i * size + cell_x : i \in cell_y..(cell_y + deck - 1)}
    IN  IF size - cell_y < deck THEN <<>>
        ELSE IF \E c \in ship_coords : f[c] # "WATER" THEN <<>>
        ELSE SortedSeq(ship_coords)

(***************************************************************************)
(* _is_valid_y_ship_start: the same for a vertical ship.                   *)
(***************************************************************************)
is_valid_y_ship_start(f, cell, deck, size) ==
    LET cell_y == cell \div size
        cell_x == cell % size
        deck_offset == cell_y + deck
        start_x == Max(cell_x - 1, 0)
        end_x == Min(cell_x + 2, size)
        start_y == Max(cell_y - 1, 0)
        end_y == Min(deck_offset + 1, size)
        rect == {i * size + j : i \in start_y..(end_y - 1), j \in start_x..(end_x - 1)}
        ship_coords == {i * size + j : i \in cell_y..(deck_offset - 1), j \in {cell_x}}
    IN  IF size - cell_y < deck THEN <<>>
        ELSE IF \E c \in rect : f[c] # "WATER" THEN <<>>
        ELSE SortedSeq(ship_coords \cap rect)

(***************************************************************************)
(* generate_field, lines 79-86: the candidate placements of one ship.  The *)
(* code draws one uniformly by index, so only the set of entries matters.  *)
(***************************************************************************)
possible_cells(f, deck, size) ==
    LET cells == 0..(size * size - 1)
    IN  ({is_valid_x_ship_start(f, c, deck, size) : c \in cells}
         \cup {is_valid_y_ship_start(f, c, deck, size) : c \in cells})
        \ {<<>>}

\* MarkShip marking the first cell of the ship only
MarkShipFirstCell(f, ship) == [c \in DOMAIN f |-> IF c = ship[1] THEN "SHIP" ELSE f[c]]

\* generate_field, lines 94-95
MarkShip(f, ship) == [c \in DOMAIN f |-> IF c \in Range(ship) THEN "SHIP" ELSE f[c]]

\* generate_field, lines 73-76: the state on entry to the loops
GenerateEntry(size, deck) ==
    /\ field_size = size
    /\ max_deck_length = deck
    /\ field = [c \in 0..(size * size - 1) |-> "WATER"]
    /\ ships = <<>>
    /\ deck_length = deck
    /\ placed = 0
    /\ pc = "generate"
    /\ cell_idx = -1
    /\ player_shot = "None"
    /\ ai_shot = "None"
    /\ recomendation_pool = <<>>
    /\ game_over = FALSE

(***************************************************************************)
(* generate_field, one pass of the inner loop (lines 78-95): collect the   *)
(* candidates, raise FieldGenerationException when there is none, else     *)
(* place one of them; then step the loops, returning after the last ship.  *)
(***************************************************************************)
PlaceShip ==
    /\ pc = "generate"
    /\ LET possible == possible_cells(field, deck_length, field_size)
           last == placed + 1 >= max_deck_length + 1 - deck_length
       IN  IF possible = {}
           THEN /\ pc' = "generation_failed"
                /\ UNCHANGED <<field, ships, deck_length, placed>>
           ELSE \E ship \in possible :
                /\ ships' = Append(ships, ship)
                /\ field' = MarkShip(field, ship)
                /\ placed' = IF last THEN 0 ELSE placed + 1
                /\ deck_length' = IF last THEN deck_length - 1 ELSE deck_length
                /\ pc' = IF last /\ deck_length = 1 THEN "generated" ELSE "generate"
    /\ UNCHANGED <<side, field_size, max_deck_length, cell_idx, player_shot,
                   ai_shot, recomendation_pool, game_over>>

(***************************************************************************)
(* generate_field on its own, for any size and deck length in the bounds.  *)
(***************************************************************************)
InitGen ==
    /\ side = "player"
    /\ \E size \in 1..GenMaxFieldSize, deck \in 1..GenMaxDeckLength :
           GenerateEntry(size, deck)

NextGen == PlaceShip

SpecGen == InitGen /\ [][NextGen]_vars

\* register_hit returning SUNK for the last cell of a ship without marking the ship
register_hit_no_sink(f, fleet, cell) ==
    IF f[cell] = "WATER"
    THEN [field |-> [f EXCEPT ![cell] = "MISS"], shot |-> "MISS"]
    ELSE IF f[cell] # "SHIP"
    THEN [field |-> f, shot |-> "AssertionError"]
    ELSE LET debris == [f EXCEPT ![cell] = "DEBRIS"]
         IN  IF \E k \in 1..Len(fleet) :
                    cell \in Range(fleet[k]) /\ \E c \in Range(fleet[k]) : debris[c] = "SHIP"
             THEN [field |-> debris, shot |-> "HIT"]
             ELSE [field |-> debris, shot |-> "SUNK"]

\* register_hit returning MISS for a WATER cell without marking the cell
register_hit_no_mark(f, fleet, cell) ==
    IF f[cell] = "WATER"
    THEN [field |-> f, shot |-> "MISS"]
    ELSE register_hit_no_sink(f, fleet, cell)

\* register_hit marking the cells of every ship, not of the ship hit, when a ship sinks
register_hit_sinks_fleet(f, fleet, cell) ==
    LET hit == register_hit_no_sink(f, fleet, cell)
        decks == UNION {Range(fleet[k]) : k \in 1..Len(fleet)}
    IN  IF hit.shot # "SUNK" THEN hit
        ELSE [field |-> [c \in DOMAIN f |-> IF c \in decks THEN "SUNKEN" ELSE hit.field[c]],
              shot |-> "SUNK"]

\* register_hit marking only the cell hit last, not the whole ship, when a ship sinks
register_hit_sinks_cell(f, fleet, cell) ==
    LET hit == register_hit_no_sink(f, fleet, cell)
    IN  IF hit.shot # "SUNK" THEN hit
        ELSE [field |-> [hit.field EXCEPT ![cell] = "SUNKEN"], shot |-> "SUNK"]

(***************************************************************************)
(* register_hit: the grid after the shot and the value returned.  "None"   *)
(* is the fall through the loop when no ship holds the cell, and           *)
(* "AssertionError" the failed assertion of line 171 (the grid is then     *)
(* left as it was).                                                        *)
(***************************************************************************)
register_hit(f, fleet, cell) ==
    IF f[cell] = "WATER"
    THEN [field |-> [f EXCEPT ![cell] = "MISS"], shot |-> "MISS"]
    ELSE IF f[cell] # "SHIP"
    THEN [field |-> f, shot |-> "AssertionError"]
    ELSE LET debris == [f EXCEPT ![cell] = "DEBRIS"]
             holders == {k \in 1..Len(fleet) : cell \in Range(fleet[k])}
         IN  IF holders = {}
             THEN [field |-> debris, shot |-> "None"]
             ELSE LET k == CHOOSE x \in holders : \A y \in holders : x <= y
                      ship == fleet[k]
                  IN  IF \E c \in Range(ship) : debris[c] = "SHIP"
                      THEN [field |-> debris, shot |-> "HIT"]
                      ELSE [field |-> [c \in DOMAIN debris |->
                                          IF c \in Range(ship) THEN "SUNKEN"
                                          ELSE debris[c]],
                            shot |-> "SUNK"]

\* check_for_game_over answering at the first cell that is not SHIP
check_for_game_over_any(f) == \E c \in DOMAIN f : f[c] # "SHIP"

\* check_for_game_over
check_for_game_over(f) == \A c \in DOMAIN f : f[c] # "SHIP"

\* _is_sunken_ship_in_proximity looking at the cell itself only
is_sunken_ship_in_proximity_own_cell(f, cell_x, cell_y, size) ==
    f[cell_y * size + cell_x] = "SUNKEN"

\* _is_sunken_ship_in_proximity
is_sunken_ship_in_proximity(f, cell_x, cell_y, size) ==
    LET start_x == Max(cell_x - 1, 0)
        end_x == Min(cell_x + 2, size)
        start_y == Max(cell_y - 1, 0)
        end_y == Min(cell_y + 2, size)
    IN  \E i \in start_y..(end_y - 1), j \in start_x..(end_x - 1) :
            f[i * size + j] = "SUNKEN"

(***************************************************************************)
(* decide_random_shot: potential_targets as a set; the code returns any    *)
(* one of them, and raises BattleshipException when there is none.         *)
(***************************************************************************)
decide_random_shot(f, size) ==
    {c \in {i * size + j : i \in 0..(size - 1), j \in 0..(size - 1)} :
        /\ f[c] # "MISS"
        /\ f[c] # "DEBRIS"
        /\ \/ f[c] = "SHIP"
           \/ ~is_sunken_ship_in_proximity(f, c % size, c \div size, size)}

\* the candidate test of the first hit without the DEBRIS case
fresh_recommendation_keeps_debris(f, r_i, r_j, size) ==
    IF r_i < 0 \/ r_i >= size \/ r_j < 0 \/ r_j >= size THEN <<>>
    ELSE IF f[r_i * size + r_j] \in {"MISS", "SUNKEN"} THEN <<>>
    ELSE <<(<<r_i, r_j>>)>>

\* make_recommendations, lines 238-244: one candidate of the first hit
fresh_recommendation(f, r_i, r_j, size) ==
    IF r_i < 0 \/ r_i >= size \/ r_j < 0 \/ r_j >= size THEN <<>>
    ELSE IF f[r_i * size + r_j] \in {"MISS", "SUNKEN", "DEBRIS"} THEN <<>>
    ELSE <<(<<r_i, r_j>>)>>

\* make_recommendations, lines 235-245: the first hit of a hunt
fresh_recommendations(f, i, j, size) ==
    fresh_recommendation(f, i + 1, j, size)
    \o fresh_recommendation(f, i, j + 1, size)
    \o fresh_recommendation(f, i - 1, j, size)
    \o fresh_recommendation(f, i, j - 1, size)

\* the pool entry's extension taken on the entry's own side of the hit
extend_recommendation_same_side(r, i, j, size) ==
    LET r_i == r[1]
        r_j == r[2]
        n == IF r_i = i
             THEN (IF j - r_j > 0 THEN <<i, j - 1>> ELSE <<i, j + 1>>)
             ELSE (IF i - r_i > 0 THEN <<i - 1, j>> ELSE <<i + 1, j>>)
    IN  IF (r_i = i /\ r_j = j) \/ (r_j # j /\ r_i # i) THEN <<>>
        ELSE IF n[1] < 0 \/ n[1] >= size \/ n[2] < 0 \/ n[2] >= size THEN <<r>>
        ELSE <<r, n>>

\* the pool entry's extension added without the test that it is in the grid
extend_recommendation_no_bounds(r, i, j, size) ==
    LET r_i == r[1]
        r_j == r[2]
        n == IF r_i = i
             THEN (IF j - r_j > 0 THEN <<i, j + 1>> ELSE <<i, j - 1>>)
             ELSE (IF i - r_i > 0 THEN <<i + 1, j>> ELSE <<i - 1, j>>)
    IN  IF (r_i = i /\ r_j = j) \/ (r_j # j /\ r_i # i) THEN <<>>
        ELSE <<r, n>>

\* make_recommendations, lines 248-264: what one pool entry adds to the new pool
extend_recommendation(r, i, j, size) ==
    LET r_i == r[1]
        r_j == r[2]
        n == IF r_i = i
             THEN (IF j - r_j > 0 THEN <<i, j + 1>> ELSE <<i, j - 1>>)
             ELSE (IF i - r_i > 0 THEN <<i + 1, j>> ELSE <<i - 1, j>>)
    IN  IF (r_i = i /\ r_j = j) \/ (r_j # j /\ r_i # i) THEN <<>>
        ELSE IF n[1] < 0 \/ n[1] >= size \/ n[2] < 0 \/ n[2] >= size THEN <<r>>
        ELSE <<r, n>>

\* make_recommendations, lines 246-265: a hit while hunting
RECURSIVE extended_recommendations(_, _, _, _)
extended_recommendations(pool, i, j, size) ==
    IF pool = <<>> THEN <<>>
    ELSE extend_recommendation(Head(pool), i, j, size)
         \o extended_recommendations(Tail(pool), i, j, size)

\* make_recommendations without the SUNK case
make_recommendations_no_sunk(f, pool, cell, shot, size) ==
    IF shot = "MISS" THEN pool
    ELSE IF pool = <<>>
    THEN fresh_recommendations(f, cell \div size, cell % size, size)
    ELSE extended_recommendations(pool, cell \div size, cell % size, size)

\* make_recommendations keeping the pool on SUNK as it does on MISS
make_recommendations_sunk_keeps_pool(f, pool, cell, shot, size) ==
    IF shot = "MISS" \/ shot = "SUNK" THEN pool
    ELSE make_recommendations_no_sunk(f, pool, cell, shot, size)

\* make_recommendations
make_recommendations(f, pool, cell, shot, size) ==
    IF shot = "MISS" THEN pool
    ELSE IF shot = "SUNK" THEN <<>>
    ELSE IF pool = <<>>
    THEN fresh_recommendations(f, cell \div size, cell % size, size)
    ELSE extended_recommendations(pool, cell \div size, cell % size, size)

\* decide_recommended_shot without the fallback to decide_random_shot
decide_recommended_shot_no_fallback(f, pool, size) ==
    {r[1] * size + r[2] : r \in
        {q \in Range(pool) :
            /\ f[q[1] * size + q[2]] \notin {"MISS", "SUNKEN", "DEBRIS"}
            /\ ~is_sunken_ship_in_proximity(f, q[2], q[1], size)}}

\* decide_recommended_shot without the test for a sunken ship nearby
decide_recommended_shot_no_proximity(f, pool, size) ==
    LET potential_targets ==
            {r[1] * size + r[2] : r \in
                {q \in Range(pool) :
                    f[q[1] * size + q[2]] \notin {"MISS", "SUNKEN", "DEBRIS"}}}
    IN  IF potential_targets = {} THEN decide_random_shot(f, size)
        ELSE potential_targets

(***************************************************************************)
(* decide_recommended_shot: potential_targets as a set; the code returns   *)
(* any one of them, or what decide_random_shot returns when there is none. *)
(***************************************************************************)
decide_recommended_shot(f, pool, size) ==
    LET potential_targets ==
            {r[1] * size + r[2] : r \in
                {q \in Range(pool) :
                    /\ f[q[1] * size + q[2]] \notin {"MISS", "SUNKEN", "DEBRIS"}
                    /\ ~is_sunken_ship_in_proximity(f, q[2], q[1], size)}}
    IN  IF potential_targets = {} THEN decide_random_shot(f, size)
        ELSE potential_targets

(***************************************************************************)
(* _main_loop.  The two fields never meet: the player's shots read and     *)
(* write field_ai only, the AI's shots field_player and the pool only.     *)
(* The model follows the loop on one field at a time: with side = "ai"     *)
(* field is field_ai, shot at by the player, and with side = "player" it   *)
(* is field_player, shot at by the AI.  What the loop does on the other    *)
(* field reaches this one only through game_over and through whose turn    *)
(* it is, and is taken as any outcome.  turn_count is only printed.        *)
(***************************************************************************)
InitGame ==
    /\ side \in {"player", "ai"}
    /\ GenerateEntry(FIELD_SIZE, MAX_DECK_LENGTH)

\* lines 290-296
EnterLoop ==
    /\ pc = "generated"
    /\ pc' = "loop"
    /\ game_over' = FALSE
    /\ recomendation_pool' = <<>>
    /\ UNCHANGED <<side, field_size, max_deck_length, field, ships, deck_length,
                   placed, cell_idx, player_shot, ai_shot>>

(***************************************************************************)
(* One pass of the outer loop seen from field_ai (lines 297-330):          *)
(* _accept_valid_bullet_placement returns any cell that is WATER or SHIP,  *)
(* register_hit applies it; after a MISS the AI's turn on the other field  *)
(* may end the game.                                                       *)
(***************************************************************************)
PlayerShoots ==
    /\ pc = "loop"
    /\ side = "ai"
    /\ ~game_over
    /\ \E cell \in DOMAIN field :
        /\ field[cell] \in {"WATER", "SHIP"}
        /\ LET hit == register_hit(field, ships, cell)
           IN  /\ cell_idx' = cell
               /\ field' = hit.field
               /\ player_shot' = hit.shot
               /\ IF hit.shot = "HIT" THEN game_over' = game_over
                  ELSE IF hit.shot = "SUNK"
                  THEN game_over' = check_for_game_over(hit.field)
                  ELSE game_over' \in BOOLEAN
    /\ pc' = IF game_over' THEN "done" ELSE "loop"
    /\ UNCHANGED <<side, field_size, max_deck_length, ships, deck_length, placed,
                   ai_shot, recomendation_pool>>

(***************************************************************************)
(* The player's part of one pass seen from field_player (lines 297-318):   *)
(* a HIT or a SUNK that does not end the game starts the next pass, a SUNK *)
(* may end the game, a MISS starts the AI's turn.                          *)
(***************************************************************************)
PlayerTurn ==
    /\ pc = "loop"
    /\ side = "player"
    /\ ~game_over
    /\ \E cell \in DOMAIN field, shot \in Shot, over \in BOOLEAN :
        /\ cell_idx' = cell
        /\ player_shot' = shot
        /\ game_over' = (shot = "SUNK" /\ over)
        /\ ai_shot' = IF shot = "MISS" THEN "None" ELSE ai_shot
        /\ pc' = IF shot = "MISS" THEN "ai_decide"
                 ELSE IF game_over' THEN "done" ELSE "loop"
    /\ UNCHANGED <<side, field_size, max_deck_length, field, ships, deck_length,
                   placed, recomendation_pool>>

\* lines 320-323; decide_random_shot may raise BattleshipException
AIDecide ==
    /\ pc = "ai_decide"
    /\ LET targets == IF recomendation_pool = <<>>
                      THEN decide_random_shot(field, field_size)
                      ELSE decide_recommended_shot(field, recomendation_pool, field_size)
       IN  IF targets = {}
           THEN /\ pc' = "BattleshipException"
                /\ UNCHANGED cell_idx
           ELSE /\ pc' = "ai_register"
                /\ cell_idx' \in targets
    /\ UNCHANGED <<side, field_size, max_deck_length, field, ships, deck_length,
                   placed, player_shot, ai_shot, recomendation_pool, game_over>>

\* line 324
AIRegisterHit ==
    /\ pc = "ai_register"
    /\ LET hit == register_hit(field, ships, cell_idx)
       IN  /\ field' = hit.field
           /\ IF hit.shot = "AssertionError"
              THEN pc' = "AssertionError" /\ UNCHANGED ai_shot
              ELSE pc' = "ai_recommend" /\ ai_shot' = hit.shot
    /\ UNCHANGED <<side, field_size, max_deck_length, ships, deck_length, placed,
                   cell_idx, player_shot, recomendation_pool, game_over>>

\* line 325
AIMakeRecommendations ==
    /\ pc = "ai_recommend"
    /\ recomendation_pool' =
           make_recommendations(field, recomendation_pool, cell_idx, ai_shot, field_size)
    /\ pc' = "ai_check"
    /\ UNCHANGED <<side, field_size, max_deck_length, field, ships, deck_length,
                   placed, cell_idx, player_shot, ai_shot, game_over>>

\* the inner loop going on after the last ship is sunk
AICheckGameOver_shoots_on ==
    /\ pc = "ai_check"
    /\ game_over' = check_for_game_over(field)
    /\ pc' = IF ai_shot # "MISS" THEN "ai_decide"
             ELSE IF game_over' THEN "done" ELSE "loop"
    /\ UNCHANGED <<side, field_size, max_deck_length, field, ships, deck_length,
                   placed, cell_idx, player_shot, ai_shot, recomendation_pool>>

\* the inner loop not stopping at a MISS
AICheckGameOver_ignores_miss ==
    /\ pc = "ai_check"
    /\ game_over' = check_for_game_over(field)
    /\ pc' = IF game_over' THEN "done" ELSE "ai_decide"
    /\ UNCHANGED <<side, field_size, max_deck_length, field, ships, deck_length,
                   placed, cell_idx, player_shot, ai_shot, recomendation_pool>>

\* lines 328-330 and the loop conditions of lines 319 and 297
AICheckGameOver ==
    /\ pc = "ai_check"
    /\ game_over' = check_for_game_over(field)
    /\ pc' = IF game_over' THEN "done"
             ELSE IF ai_shot # "MISS" THEN "ai_decide" ELSE "loop"
    /\ UNCHANGED <<side, field_size, max_deck_length, field, ships, deck_length,
                   placed, cell_idx, player_shot, ai_shot, recomendation_pool>>

Init == InitGame

Next ==
    \/ PlaceShip
    \/ EnterLoop
    \/ PlayerShoots
    \/ PlayerTurn
    \/ AIDecide
    \/ AIRegisterHit
    \/ AIMakeRecommendations
    \/ AICheckGameOver

Spec == Init /\ [][Next]_vars

(***************************************************************************)
(* The loop runs on: once the AI's turn has begun, each of its steps is    *)
(* taken (the turn has no input and nothing else runs).                    *)
(***************************************************************************)
FairSpec ==
    /\ Spec
    /\ WF_vars(AIDecide)
    /\ WF_vars(AIRegisterHit)
    /\ WF_vars(AIMakeRecommendations)
    /\ WF_vars(AICheckGameOver)

(***************************************************************************)
(* make_recommendations on its own: any shot result at any cell, any pool  *)
(* of at most MaxPoolLen in-bounds entries.  With an empty pool, the only  *)
(* case in which the grid is read, the four neighbours of the cell take    *)
(* every state; the other cells are WATER and the cell itself is as        *)
(* register_hit leaves it.                                                 *)
(***************************************************************************)
Coords(size) == {<<i, j>> : i \in 0..(size - 1), j \in 0..(size - 1)}

Pools(size) ==
    UNION {[1..n -> Coords(size)] : n \in 0..MaxPoolLen}

Neighbours(cell, size) ==
    {c \in 0..(size * size - 1) :
        \/ c \div size = cell \div size /\ (c % size) - (cell % size) \in {-1, 1}
        \/ c % size = cell % size /\ (c \div size) - (cell \div size) \in {-1, 1}}

ShotCell(shot) ==
    IF shot = "MISS" THEN "MISS" ELSE IF shot = "HIT" THEN "DEBRIS" ELSE "SUNKEN"

InitRec ==
    /\ pc = "call_make_recommendations"
    /\ side = "player"
    /\ field_size = FIELD_SIZE
    /\ max_deck_length = MAX_DECK_LENGTH
    /\ ships = <<>>
    /\ deck_length = 0
    /\ placed = 0
    /\ player_shot = "MISS"
    /\ game_over = FALSE
    /\ cell_idx \in 0..(FIELD_SIZE * FIELD_SIZE - 1)
    /\ ai_shot \in Shot
    /\ recomendation_pool \in Pools(FIELD_SIZE)
    /\ \E around \in [Neighbours(cell_idx, FIELD_SIZE) -> FieldCell] :
        /\ recomendation_pool # <<>> => \A c \in DOMAIN around : around[c] = "WATER"
        /\ field = [c \in 0..(FIELD_SIZE * FIELD_SIZE - 1) |->
                       IF c = cell_idx THEN ShotCell(ai_shot)
                       ELSE IF c \in DOMAIN around THEN around[c]
                       ELSE "WATER"]

\* recomendation_pool = make_recommendations(...), as on line 325
CallMakeRecommendations ==
    /\ pc = "call_make_recommendations"
    /\ recomendation_pool' =
           make_recommendations(field, recomendation_pool, cell_idx, ai_shot, field_size)
    /\ pc' = "returned"
    /\ UNCHANGED <<side, field_size, max_deck_length, field, ships, deck_length,
                   placed, cell_idx, player_shot, ai_shot, game_over>>

NextRec == CallMakeRecommendations

SpecRec == InitRec /\ [][NextRec]_vars

(***************************************************************************)
(* register_hit on its own: one ship of any length up to the grid size,    *)
(* lying anywhere in a row or a column of an otherwise empty grid, its     *)
(* cells shot at one by one in any order.                                  *)
(***************************************************************************)
InitHit ==
    /\ pc = "call_register_hit"
    /\ side = "ai"
    /\ field_size = FIELD_SIZE
    /\ max_deck_length = MAX_DECK_LENGTH
    /\ deck_length = 0
    /\ placed = 0
    /\ cell_idx = -1
    /\ player_shot = "None"
    /\ ai_shot = "None"
    /\ recomendation_pool = <<>>
    /\ game_over = FALSE
    /\ LET water == [c \in 0..(FIELD_SIZE * FIELD_SIZE - 1) |-> "WATER"]
       IN  \E deck \in 1..FIELD_SIZE :
           \E ship \in possible_cells(water, deck, FIELD_SIZE) :
               /\ ships = <<ship>>
               /\ field = MarkShip(water, ship)

\* player_shot = register_hit(field, ships, cell_idx), as on line 303
CallRegisterHit ==
    /\ pc = "call_register_hit"
    /\ \E cell \in DOMAIN field :
        /\ field[cell] = "SHIP"
        /\ cell_idx' = cell
        /\ field' = register_hit(field, ships, cell).field
        /\ player_shot' = register_hit(field, ships, cell).shot
    /\ UNCHANGED <<pc, side, field_size, max_deck_length, ships, deck_length,
                   placed, ai_shot, recomendation_pool, game_over>>

NextHit == CallRegisterHit

SpecHit == InitHit /\ [][NextHit]_vars

\* the game together with register_hit on its own
SpecShots == (InitGame \/ InitHit) /\ [][Next \/ NextHit]_vars

\* the game together with make_recommendations on its own
SpecPool == (InitGame \/ InitRec) /\ [][Next \/ NextRec]_vars

(***************************************************************************)
(* The AI's hunt on a field with a three-deck ship.  With MAX_DECK_LENGTH  *)
(* = 2 a HIT is always the first hit of its ship, so the pool is never     *)
(* extended in Spec; here generate_field runs with HuntFieldSize and       *)
(* HuntMaxDeckLength.  To keep the run finite and small, random.randint on *)
(* line 92 returns any index for the first ship and index 0 for the ships  *)
(* after it, the player misses on every turn (so every pass of the outer   *)
(* loop reaches the AI's turn), and the AI gets at most MaxAITurns turns:  *)
(* each of its finished turns leaves exactly one more MISS on the field.   *)
(***************************************************************************)
\* the side of the player's field in the hunt
HuntFieldSize == 5

\* the longest ship of the hunt
HuntMaxDeckLength == 3

\* the number of turns the AI gets in the hunt
MaxAITurns == 2

\* possible_cells[0]: the lowest start cell, its row placement before its column one
FirstPossible(possible) ==
    CHOOSE s \in possible :
        \A t \in possible : s[1] < t[1] \/ (s[1] = t[1] /\ s[Len(s)] <= t[Len(t)])

InitHunt ==
    /\ side = "player"
    /\ GenerateEntry(HuntFieldSize, HuntMaxDeckLength)

\* generate_field's inner loop with randint giving 0 after the first ship
PlaceShipHunt ==
    /\ PlaceShip
    /\ (ships # <<>> /\ pc' # "generation_failed") =>
           ships'[Len(ships')] = FirstPossible(possible_cells(field, deck_length, field_size))

MissCount == Cardinality({c \in DOMAIN field : field[c] = "MISS"})

\* the player's part of a pass: a miss, on the next cell of the other field
HuntPlayerTurn ==
    /\ MissCount < MaxAITurns
    /\ PlayerTurn
    /\ player_shot' = "MISS"
    /\ cell_idx' = MissCount

NextHunt ==
    \/ PlaceShipHunt
    \/ EnterLoop
    \/ HuntPlayerTurn
    \/ AIDecide
    \/ AIRegisterHit
    \/ AIMakeRecommendations
    \/ AICheckGameOver

SpecHunt == InitHunt /\ [][NextHunt]_vars

(***************************************************************************)
(* decide_recommended_shot on its own, on every grid that shots can make   *)
(* of a generated field and with any pool of at most MaxPoolLen in-bounds  *)
(* entries (the empty pool gives decide_random_shot's part).  What a       *)
(* sequence of register_hit calls leaves depends only on the set of cells  *)
(* shot: water cells shot are MISS, a ship shot all over is SUNKEN, the    *)
(* other cells shot are DEBRIS.                                            *)
(***************************************************************************)
ShotGrid(f, fleet, shot) ==
    [c \in DOMAIN f |->
        IF c \notin shot THEN f[c]
        ELSE IF f[c] = "WATER" THEN "MISS"
        ELSE IF \E k \in 1..Len(fleet) :
                    c \in Range(fleet[k]) /\ Range(fleet[k]) \subseteq shot
        THEN "SUNKEN"
        ELSE "DEBRIS"]

InitDecide ==
    /\ side = "player"
    /\ GenerateEntry(FIELD_SIZE, MAX_DECK_LENGTH)

\* the grid after any shots, and any pool
SetUpDecide ==
    /\ pc = "generated"
    /\ \E shot \in SUBSET (DOMAIN field) : field' = ShotGrid(field, ships, shot)
    /\ recomendation_pool' \in Pools(field_size)
    /\ pc' = "call_decide"
    /\ UNCHANGED <<side, field_size, max_deck_length, ships, deck_length, placed,
                   cell_idx, player_shot, ai_shot, game_over>>

\* cell_idx = decide_recommended_shot(...), as on line 323
CallDecide ==
    /\ pc = "call_decide"
    /\ LET targets == decide_recommended_shot(field, recomendation_pool, field_size)
       IN  IF targets = {}
           THEN /\ pc' = "BattleshipException"
                /\ UNCHANGED cell_idx
           ELSE /\ pc' = "decided"
                /\ cell_idx' \in targets
    /\ UNCHANGED <<side, field_size, max_deck_length, field, ships, deck_length,
                   placed, player_shot, ai_shot, recomendation_pool, game_over>>

NextDecide ==
    \/ PlaceShip
    \/ SetUpDecide
    \/ CallDecide

SpecDecide == InitDecide /\ [][NextDecide]_vars

(***************************************************************************)
(* Properties of generate_field (under SpecGen)                            *)
(***************************************************************************)
ShipCells == UNION {Range(ships[k]) : k \in 1..Len(ships)}

Row(c) == c \div field_size

Col(c) == c % field_size

Abs(x) == IF x < 0 THEN -x ELSE x

\* c and d are the same cell or touch by a side or a corner
Touching(c, d) == Abs(Row(c) - Row(d)) <= 1 /\ Abs(Col(c) - Col(d)) <= 1

\* the ships of L cells
ShipsOfLength(L) ==
    {k \in 1..Len(ships) : Len(ships[k]) = L /\ Cardinality(Range(ships[k])) = L}

(***************************************************************************)
(* C1: when generate_field returns, the fleet holds max_deck_length-L+1    *)
(* ships of each length L in 1..max_deck_length and no others (so          *)
(* D(D+1)/2 ships and D(D+1)(D+2)/6 ship cells for max deck D), the SHIP   *)
(* cells are exactly the cells of the ships, and every other cell is WATER.*)
(***************************************************************************)
C1_FleetShape ==
    pc = "generated" =>
        /\ \A L \in 1..max_deck_length :
               Cardinality(ShipsOfLength(L)) = max_deck_length - L + 1
        /\ \A k \in 1..Len(ships) : \E L \in 1..max_deck_length : k \in ShipsOfLength(L)
        /\ 2 * Len(ships) = max_deck_length * (max_deck_length + 1)
        /\ 6 * Cardinality(ShipCells) =
               max_deck_length * (max_deck_length + 1) * (max_deck_length + 2)
        /\ ShipCells \subseteq DOMAIN field
        /\ \A c \in DOMAIN field :
               field[c] = IF c \in ShipCells THEN "SHIP" ELSE "WATER"

\* a 4x4 field returned with its three ships (decks 2, 1, 1)
C1_Witness ==
    /\ pc = "generated"
    /\ field_size = 4
    /\ max_deck_length = 2
    /\ Len(ships) = 3
    /\ Cardinality({c \in DOMAIN field : field[c] = "SHIP"}) = 4

(***************************************************************************)
(* C2: at every point of generate_field, after each placement and on       *)
(* return, no two distinct ships share a cell or have cells that touch by  *)
(* a side or a corner.                                                     *)
(***************************************************************************)
C2_ShipsApart ==
    \A a, b \in 1..Len(ships) :
        a # b => \A c \in Range(ships[a]), d \in Range(ships[b]) : ~Touching(c, d)

\* a returned field with three ships, the first of two decks
C2_Witness ==
    /\ pc = "generated"
    /\ Len(ships) = 3
    /\ Len(ships[1]) = 2

(***************************************************************************)
(* C3: every placed ship is a run of consecutive cells inside the grid,    *)
(* all in one row (cell, cell+1, ...) or all in one column (cell,          *)
(* cell+size, ...): a horizontal ship does not continue on the next row    *)
(* and a vertical ship does not run past the last row.                     *)
(***************************************************************************)
C3_ShipsAreRuns ==
    \A k \in 1..Len(ships) :
        LET ship == ships[k]
        IN  /\ Len(ship) >= 1
            /\ \A m \in 1..Len(ship) : ship[m] \in 0..(field_size * field_size - 1)
            /\ \/ \A m \in 1..Len(ship) :
                      ship[m] = ship[1] + (m - 1) /\ Row(ship[m]) = Row(ship[1])
               \/ \A m \in 1..Len(ship) :
                      ship[m] = ship[1] + (m - 1) * field_size /\ Col(ship[m]) = Col(ship[1])

\* a horizontal two-deck ship ending in the last column of a 4x4 grid
C3_Witness ==
    /\ field_size = 4
    /\ \E k \in 1..Len(ships) :
           Len(ships[k]) = 2 /\ Col(ships[k][2]) = 3 /\ ships[k][2] = ships[k][1] + 1

(***************************************************************************)
(* Properties of register_hit and check_for_game_over                      *)
(***************************************************************************)
\* the step is a call of register_hit: by the player (line 303), by the AI
\* (line 324) or on its own
IsRegisterHit ==
    \/ pc = "loop" /\ side = "ai"
    \/ pc = "ai_register"
    \/ pc = "call_register_hit"

\* the cell the call is given
ShotAt == IF pc = "ai_register" THEN cell_idx ELSE cell_idx'

\* the value the call returns
Returned == IF pc = "ai_register" THEN ai_shot' ELSE player_shot'

\* the cells of the fleet ship that holds cell c
ShipOf(c) == Range(ships[CHOOSE k \in 1..Len(ships) : c \in Range(ships[k])])

(***************************************************************************)
(* C4: register_hit on a SHIP cell: if another cell of the ship holding it *)
(* is still SHIP, the cell becomes DEBRIS and HIT is returned; otherwise   *)
(* every cell of that ship becomes SUNKEN and SUNK is returned.  No cell   *)
(* outside the ship changes, nor does the fleet.  So the cells of a ship   *)
(* shot one by one give HIT up to the last and SUNK for the last.          *)
(***************************************************************************)
C4_RegisterHitOnShip ==
    [][(IsRegisterHit /\ field[ShotAt] = "SHIP") =>
          LET ship == ShipOf(ShotAt)
              afloat == \E d \in ship \ {ShotAt} : field[d] = "SHIP"
          IN  /\ ships' = ships
              /\ IF afloat
                 THEN /\ Returned = "HIT"
                      /\ field' = [field EXCEPT ![ShotAt] = "DEBRIS"]
                 ELSE /\ Returned = "SUNK"
                      /\ field' = [c \in DOMAIN field |->
                                      IF c \in ship THEN "SUNKEN" ELSE field[c]]]_vars

\* a ship of three cells alone on the grid, sunk by the third shot at it
C4_Witness ==
    /\ pc = "call_register_hit"
    /\ Len(ships[1]) = 3
    /\ player_shot = "SUNK"
    /\ \A c \in Range(ships[1]) : field[c] = "SUNKEN"

(***************************************************************************)
(* C5: register_hit on a WATER cell returns MISS, turns that cell to MISS  *)
(* and leaves every other cell and the fleet as they were.                 *)
(***************************************************************************)
C5_RegisterHitOnWater ==
    [][(IsRegisterHit /\ field[ShotAt] = "WATER") =>
          /\ Returned = "MISS"
          /\ field' = [field EXCEPT ![ShotAt] = "MISS"]
          /\ ships' = ships]_vars

\* the player has missed on a generated field that already holds a damaged ship
C5_Witness ==
    /\ pc = "loop"
    /\ side = "ai"
    /\ player_shot = "MISS"
    /\ field[cell_idx] = "MISS"
    /\ \E c \in DOMAIN field : field[c] = "DEBRIS"

(***************************************************************************)
(* C6: on a generated field after any shots, check_for_game_over is true   *)
(* iff no cell is SHIP, which is the case iff every fleet cell is SUNKEN   *)
(* (and then no cell is DEBRIS); it is false right after generation.       *)
(***************************************************************************)
C6_GameOver ==
    pc \notin {"generate", "generation_failed"} =>
        /\ check_for_game_over(field) <=> ~\E c \in DOMAIN field : field[c] = "SHIP"
        /\ check_for_game_over(field) <=> \A c \in ShipCells : field[c] = "SUNKEN"
        /\ check_for_game_over(field) => \A c \in DOMAIN field : field[c] # "DEBRIS"
        /\ pc = "generated" => ~check_for_game_over(field)

\* the game is over on a field with all ships sunk and some misses
C6_Witness ==
    /\ pc = "done"
    /\ check_for_game_over(field)
    /\ \E c \in DOMAIN field : field[c] = "MISS"

(***************************************************************************)
(* C7: after generation a cell only moves WATER -> MISS, SHIP -> DEBRIS,   *)
(* DEBRIS -> SUNKEN, or SHIP -> SUNKEN for the cell whose shot sinks the   *)
(* ship; MISS and SUNKEN cells stay as they are; and the grid changes in   *)
(* calls of register_hit only.                                             *)
(***************************************************************************)
CellMove(c) ==
    \/ field'[c] = field[c]
    \/ field[c] = "WATER" /\ field'[c] = "MISS"
    \/ field[c] = "SHIP" /\ field'[c] = "DEBRIS"
    \/ field[c] = "DEBRIS" /\ field'[c] = "SUNKEN"
    \/ field[c] = "SHIP" /\ field'[c] = "SUNKEN" /\ IsRegisterHit /\ c = ShotAt

C7_CellsOnlyAdvance ==
    [][pc # "generate" =>
          /\ DOMAIN field' = DOMAIN field
          /\ \A c \in DOMAIN field : CellMove(c)
          /\ field' # field => IsRegisterHit]_vars

\* the AI has shot a field that now holds misses, a sunk ship and a damaged one
C7_Witness ==
    /\ pc = "ai_check"
    /\ \E c \in DOMAIN field : field[c] = "MISS"
    /\ \E c \in DOMAIN field : field[c] = "SUNKEN"
    /\ \E c \in DOMAIN field : field[c] = "DEBRIS"

(***************************************************************************)
(* Properties of make_recommendations                                      *)
(***************************************************************************)
\* the step is a call of make_recommendations: in the loop (line 325) or on its own
IsMakeRecommendations == pc = "ai_recommend" \/ pc = "call_make_recommendations"

\* the <<row, col>> of the cell shot at
HitCoord == <<cell_idx \div field_size, cell_idx % field_size>>

InGrid(r) == r[1] \in 0..(field_size - 1) /\ r[2] \in 0..(field_size - 1)

Sgn(x) == IF x > 0 THEN 1 ELSE IF x < 0 THEN -1 ELSE 0

\* r shares the row or the column of h, and not both
SharesOneAxis(r, h) == (r[1] = h[1]) # (r[2] = h[2])

\* the cell one step from h on the side away from r
Beyond(r, h) == <<h[1] + Sgn(h[1] - r[1]), h[2] + Sgn(h[2] - r[2])>>

\* the new pool as C8 states it
RECURSIVE KeptAndExtended(_, _)
KeptAndExtended(pool, h) ==
    IF pool = <<>> THEN <<>>
    ELSE LET r == Head(pool)
         IN  (IF ~SharesOneAxis(r, h) THEN <<>>
              ELSE IF InGrid(Beyond(r, h)) THEN <<r, Beyond(r, h)>>
              ELSE <<r>>)
             \o KeptAndExtended(Tail(pool), h)

(***************************************************************************)
(* C8: make_recommendations on a HIT with a non-empty pool goes through    *)
(* the pool in order: it drops an entry equal to the hit cell or sharing   *)
(* neither its row nor its column, keeps any other entry and puts right    *)
(* after it the cell one step beyond the hit cell on the side away from    *)
(* the entry, unless that cell is outside the grid; nothing else is in the *)
(* new pool.                                                               *)
(***************************************************************************)
C8_HitWhileHunting ==
    [][(IsMakeRecommendations /\ ai_shot = "HIT" /\ recomendation_pool # <<>>) =>
          recomendation_pool' = KeptAndExtended(recomendation_pool, HitCoord)]_vars

\* a hit at the centre (1,1) while hunting: the entry (1,0) is kept and followed by (1,2)
C8_Witness ==
    /\ pc = "returned"
    /\ ai_shot = "HIT"
    /\ cell_idx = 4
    /\ recomendation_pool = <<(<<1, 0>>), (<<1, 2>>)>>

(***************************************************************************)
(* C9: make_recommendations on a HIT with an empty pool returns, each      *)
(* once, the cells next to the hit cell in its row or column that are in   *)
(* the grid and not MISS, SUNKEN or DEBRIS; for a hit cell with four       *)
(* unshot neighbours these are (row+1,col), (row-1,col), (row,col+1) and   *)
(* (row,col-1).                                                            *)
(***************************************************************************)
AxisNeighbours(h) ==
    {r \in Coords(field_size) : Abs(r[1] - h[1]) + Abs(r[2] - h[2]) = 1}

C9_FirstHit ==
    [][(IsMakeRecommendations /\ ai_shot = "HIT" /\ recomendation_pool = <<>>) =>
          LET h == HitCoord
              open == {r \in AxisNeighbours(h) :
                          field[r[1] * field_size + r[2]] \notin {"MISS", "SUNKEN", "DEBRIS"}}
              four == {<<h[1] + 1, h[2]>>, <<h[1] - 1, h[2]>>,
                       <<h[1], h[2] + 1>>, <<h[1], h[2] - 1>>}
          IN  /\ Range(recomendation_pool') = open
              /\ Len(recomendation_pool') = Cardinality(open)
              /\ (\A r \in four :
                      InGrid(r) /\ field[r[1] * field_size + r[2]] \in {"WATER", "SHIP"})
                 => Range(recomendation_pool') = four]_vars

\* a first hit at the centre (1,1) of the 3x3 grid with its four neighbours unshot
C9_Witness ==
    /\ pc = "returned"
    /\ ai_shot = "HIT"
    /\ cell_idx = 4
    /\ \A c \in {1, 3, 5, 7} : field[c] \in {"WATER", "SHIP"}
    /\ recomendation_pool = <<(<<2, 1>>), (<<1, 2>>), (<<0, 1>>), (<<1, 0>>)>>

(***************************************************************************)
(* C10: make_recommendations returns the pool as it was on a MISS and the  *)
(* empty pool on a SUNK, whatever the pool and the grid; so in the loop    *)
(* the pool is empty after every shot of the AI that sinks a ship, until   *)
(* its next shot is registered.                                            *)
(***************************************************************************)
C10_MissAndSunk ==
    /\ [][IsMakeRecommendations =>
             /\ ai_shot = "MISS" => recomendation_pool' = recomendation_pool
             /\ ai_shot = "SUNK" => recomendation_pool' = <<>>]_vars
    /\ []((ai_shot = "SUNK" /\ ~IsMakeRecommendations) => recomendation_pool = <<>>)

\* in the loop the AI has sunk a two-deck ship it was hunting and the pool is empty
C10_Witness ==
    /\ pc = "ai_check"
    /\ ai_shot = "SUNK"
    /\ Cardinality(ShipOf(cell_idx)) = 2
    /\ recomendation_pool = <<>>

(***************************************************************************)
(* Properties of the AI's shots (under SpecHunt and Spec)                  *)
(***************************************************************************)
\* the cell has a SUNKEN cell in its 3x3 neighbourhood clipped to the grid
NearSunk(c) == \E d \in DOMAIN field : Touching(c, d) /\ field[d] = "SUNKEN"

\* a pool entry as a cell index
PoolCell(r) == r[1] * field_size + r[2]

\* C11: every cell the AI shoots at, chosen at random or from the pool, is
\* WATER or SHIP when it is shot and has no SUNKEN cell in its clipped 3x3
\* neighbourhood, so the assertion of register_hit never fails.
C11_ShotsAreFresh ==
    /\ pc # "AssertionError"
    /\ pc = "ai_register" =>
           /\ field[cell_idx] \in {"WATER", "SHIP"}
           /\ ~NearSunk(cell_idx)

\* the AI has taken a cell of a non-empty pool while a sunk ship lies next to
\* another entry of the pool
C11_Witness ==
    /\ pc = "ai_register"
    /\ recomendation_pool # <<>>
    /\ \E r \in Range(recomendation_pool) : NearSunk(PoolCell(r))

(***************************************************************************)
(* Properties of decide_recommended_shot (under SpecDecide)                *)
(***************************************************************************)
\* the cells of the pool that are not MISS, SUNKEN or DEBRIS and have no SUNKEN
\* cell next to them
Passing ==
    {c \in {PoolCell(r) : r \in Range(recomendation_pool)} :
        field[c] \in {"WATER", "SHIP"} /\ ~NearSunk(c)}

\* C12: when the pool holds cells that are not MISS, SUNKEN or DEBRIS and not
\* next to a SUNKEN cell, the possible results of decide_recommended_shot are
\* exactly those cells and it returns one of them; when it holds none, its
\* possible results are exactly those of decide_random_shot on the same grid.
C12_RecommendedOrRandom ==
    LET expected == IF Passing # {} THEN Passing
                    ELSE decide_random_shot(field, field_size)
    IN  /\ pc = "call_decide" =>
               decide_recommended_shot(field, recomendation_pool, field_size) = expected
        /\ pc = "decided" => cell_idx \in expected

\* a cell has been returned from a pool that also holds a WATER cell next to a
\* sunk ship
C12_Witness ==
    /\ pc = "decided"
    /\ cell_idx \in Passing
    /\ \E r \in Range(recomendation_pool) :
           field[PoolCell(r)] = "WATER" /\ NearSunk(PoolCell(r))

\* C13 as stated: decide_recommended_shot, with decide_random_shot behind it,
\* never raises on a grid that has a WATER or a SHIP cell.
C13_NeverRaisesOnUnshotCell ==
    pc = "BattleshipException" => \A c \in DOMAIN field : field[c] \notin {"WATER", "SHIP"}

\* C13 amended: decide_recommended_shot, with decide_random_shot behind it,
\* never raises on a grid that has a SHIP cell or a WATER cell with no SUNKEN
\* cell in its clipped 3x3 neighbourhood; it raises on every other grid.
C13_RaisesOnlyWithoutCandidate ==
    LET candidate == \E c \in DOMAIN field :
                         \/ field[c] = "SHIP"
                         \/ field[c] = "WATER" /\ ~NearSunk(c)
    IN  /\ pc = "BattleshipException" => ~candidate
        /\ pc = "decided" => candidate

\* a cell has been returned through the fallback: the pool is not empty, none
\* of its cells passes, and the grid has WATER next to a sunk ship
C13_Witness ==
    /\ pc = "decided"
    /\ recomendation_pool # <<>>
    /\ Passing = {}
    /\ \E c \in DOMAIN field : field[c] = "WATER" /\ NearSunk(c)

(***************************************************************************)
(* Properties of the AI's turn in the loop                                 *)
(***************************************************************************)
\* C14: in the loop decide_random_shot never raises BattleshipException:
\* whenever the AI is asked for a shot the field has a SHIP cell, and every
\* SHIP cell is among decide_random_shot's candidates.
C14_RandomShotNeverRaises ==
    /\ pc # "BattleshipException"
    /\ pc = "ai_decide" =>
           /\ \E c \in DOMAIN field : field[c] = "SHIP"
           /\ \A c \in DOMAIN field :
                  field[c] = "SHIP" => c \in decide_random_shot(field, field_size)

\* the AI is asked for a random shot while water next to a sunk ship is left out
C14_Witness ==
    /\ pc = "ai_decide"
    /\ recomendation_pool = <<>>
    /\ \E c \in DOMAIN field :
           field[c] = "WATER" /\ NearSunk(c) /\ c \notin decide_random_shot(field, field_size)

\* the number of cells not shot at yet
UnshotCount == Cardinality({c \in DOMAIN field : field[c] \in {"WATER", "SHIP"}})

InAITurn == pc \in {"ai_decide", "ai_register", "ai_recommend", "ai_check"}

\* one step of the AI's turn: a shot takes one cell out of the unshot ones, the
\* other steps leave the grid alone, and the turn goes on exactly when the shot
\* was a HIT or a SUNK and a SHIP cell is left
AITurnStep ==
    /\ pc = "ai_register" =>
           /\ field[cell_idx] \in {"WATER", "SHIP"}
           /\ UnshotCount' = UnshotCount - 1
    /\ (InAITurn /\ pc # "ai_register") => field' = field
    /\ pc = "ai_check" =>
           /\ pc' = "ai_decide" <=>
                  (ai_shot \in {"HIT", "SUNK"} /\ \E c \in DOMAIN field : field[c] = "SHIP")
           /\ pc' = "loop" <=>
                  (ai_shot = "MISS" /\ \E c \in DOMAIN field : field[c] = "SHIP")
           /\ pc' = "done" <=> \A c \in DOMAIN field : field[c] # "SHIP"

\* C15: each AI turn ends.  The AI shoots again exactly while its shot was a
\* HIT or a SUNK and the field has a SHIP cell, and the turn stops after its
\* first MISS or when no SHIP cell is left; every shot turns one unshot cell
\* into a shot one, which bounds the shots of a turn by the number of cells.
C15_AITurnTerminates ==
    /\ [][AITurnStep]_vars
    /\ InAITurn ~> (pc \in {"loop", "done"})

\* a turn of several shots has ended with a MISS: a ship is sunk, another afloat
C15_Witness ==
    /\ pc = "loop"
    /\ ai_shot = "MISS"
    /\ \E c \in DOMAIN field : field[c] = "SUNKEN"
    /\ \E c \in DOMAIN field : field[c] = "SHIP"

(***************************************************************************)
(* Properties of the recommendation pool in the loop (under SpecHunt)      *)
(***************************************************************************)
\* the pool holds a cell of the ship just hit that is still SHIP
PoolKeepsShip ==
    \E r \in Range(recomendation_pool) :
        PoolCell(r) \in ShipOf(cell_idx) /\ field[PoolCell(r)] = "SHIP"

\* C16: whenever make_recommendations has processed a HIT in the loop, the pool
\* it returned is not empty and holds a cell of the ship just hit that is still
\* SHIP.
C16_HitKeepsHunting ==
    (pc = "ai_check" /\ ai_shot = "HIT") =>
        (recomendation_pool # <<>> /\ PoolKeepsShip)

(***************************************************************************)
(* Properties of the grid under any shots (under Spec and SpecShots)       *)
(***************************************************************************)
\* C17: in every state that shots make of a generated field no SHIP cell has a
\* SUNKEN cell in its clipped 3x3 neighbourhood, and every SHIP cell is among
\* decide_random_shot's candidates.
C17_NoShipNearSunk ==
    \A c \in DOMAIN field :
        field[c] = "SHIP" =>
            /\ ~NearSunk(c)
            /\ c \in decide_random_shot(field, field_size)

\* a ship is sunk and another afloat, with water next to the sunk one left out
\* of the random shots
C17_Witness ==
    /\ pc = "loop"
    /\ \E c \in DOMAIN field : field[c] = "SHIP"
    /\ \E c \in DOMAIN field :
           field[c] = "WATER" /\ NearSunk(c) /\ c \notin decide_random_shot(field, field_size)

\* C18: in every state that register_hit calls on WATER and SHIP cells make of
\* a generated field, a DEBRIS cell belongs to a ship that still has a SHIP
\* cell, the cells of a ship are all SUNKEN or none is, DEBRIS and SUNKEN are
\* on fleet cells only and MISS on the other cells only.
C18_DebrisAndSunk ==
    /\ \A c \in DOMAIN field :
           field[c] = "DEBRIS" =>
               c \in ShipCells /\ \E d \in ShipOf(c) : field[d] = "SHIP"
    /\ \A k \in 1..Len(ships) :
           \/ \A c \in Range(ships[k]) : field[c] = "SUNKEN"
           \/ \A c \in Range(ships[k]) : field[c] # "SUNKEN"
    /\ \A c \in DOMAIN field :
           /\ field[c] \in {"DEBRIS", "SUNKEN"} => c \in ShipCells
           /\ field[c] = "MISS" => c \notin ShipCells

\* a ship of several cells has been shot all over and is SUNKEN
C18_Witness ==
    \E k \in 1..Len(ships) :
        /\ Len(ships[k]) > 1
        /\ \A c \in Range(ships[k]) : field[c] = "SUNKEN"

(***************************************************************************)
(* More properties of the recommendation pool in the loop (under SpecHunt) *)
(***************************************************************************)
\* C19: every entry of the pool is a coordinate pair inside the grid, and the
\* pool never holds more than 4 entries.
C19_PoolInGrid ==
    /\ \A r \in Range(recomendation_pool) : InGrid(r)
    /\ Len(recomendation_pool) <= 4

\* a hit on the grid's edge while hunting: the entry beyond the ship's other
\* end is kept, and the extension, which would lie outside the grid, is dropped
C19_Witness ==
    /\ pc = "ai_check"
    /\ ai_shot = "HIT"
    /\ Len(recomendation_pool) = 1
    /\ SharesOneAxis(recomendation_pool[1], HitCoord)
    /\ Abs(recomendation_pool[1][1] - HitCoord[1])
           + Abs(recomendation_pool[1][2] - HitCoord[2]) = 2
    /\ ~InGrid(Beyond(recomendation_pool[1], HitCoord))

\* C20: whenever the AI is about to shoot with a non-empty pool, the pool holds
\* a cell that is not MISS, SUNKEN or DEBRIS and has no SUNKEN cell next to it:
\* decide_recommended_shot never falls back to decide_random_shot in the loop.
C20_NoFallback ==
    (pc = "ai_decide" /\ recomendation_pool # <<>>) => Passing # {}

\* the AI is about to shoot with a pool of which a cell passes and another,
\* missed in an earlier turn, does not
C20_Witness ==
    /\ pc = "ai_decide"
    /\ Passing # {}
    /\ \E r \in Range(recomendation_pool) : field[PoolCell(r)] = "MISS"

====
